---- MODULE Spec2Model ----
(***************************************************************************)
(* IMAP response parser of anyrfc (src/anyrfc/parsing/imap.py and          *)
(* imap_grammar.py).  Texts are strings; Ch(s, i) is the i-th character.   *)
(* The rules of imap_grammar.py are grammar expressions, as the functions  *)
(* of that module return them; Parse runs an expression over a text the    *)
(* way the PEG engine does: ordered choice, backtracking, no whitespace    *)
(* skipping, no implicit end-of-input check.                               *)
(***************************************************************************)
EXTENDS Integers, Sequences, FiniteSets, TLC

\* ------------------------------------------------------------------ text

Ch(s, i) == SubSeq(s, i, i)

Max(a, b) == IF a >= b THEN a ELSE b

Digit == {"0", "1", "2", "3", "4", "5", "6", "7", "8", "9"}
UpperSeq == "ABCDEFGHIJKLMNOPQRSTUVWXYZ"
LowerSeq == "abcdefghijklmnopqrstuvwxyz"
Upper == {Ch(UpperSeq, i) : i \in 1..Len(UpperSeq)}
Lower == {Ch(LowerSeq, i) : i \in 1..Len(LowerSeq)}
Alpha == Upper \cup Lower

\* Python's \s and the characters str.strip() removes (ASCII part).
Blank == {" ", "\t", "\n", "\r", "\f"}

\* The characters atom_char's negated class excludes.
AtomSpecial == Blank \cup {"(", ")", "{", "%", "*", "\"", "\\", "+", "]"}

DigitVal(c) ==
    CASE c = "0" -> 0 [] c = "1" -> 1 [] c = "2" -> 2 [] c = "3" -> 3
      [] c = "4" -> 4 [] c = "5" -> 5 [] c = "6" -> 6 [] c = "7" -> 7
      [] c = "8" -> 8 [] c = "9" -> 9

\* int(d) for a string of decimal digits.
RECURSIVE ToInt(_)
ToInt(d) ==
    IF Len(d) = 0 THEN 0
    ELSE ToInt(SubSeq(d, 1, Len(d) - 1)) * 10 + DigitVal(Ch(d, Len(d)))

\* Index after the longest run of characters of class C that starts at p.
RECURSIVE RunEnd(_, _, _)
RunEnd(s, p, C) ==
    IF p <= Len(s) /\ Ch(s, p) \in C THEN RunEnd(s, p + 1, C) ELSE p

\* Index after the longest run of characters outside class C from p.
RECURSIVE RunEndNot(_, _, _)
RunEndNot(s, p, C) ==
    IF p <= Len(s) /\ Ch(s, p) \notin C THEN RunEndNot(s, p + 1, C) ELSE p

\* s has lit at index p.
At(s, p, lit) ==
    /\ p >= 1
    /\ p + Len(lit) - 1 <= Len(s)
    /\ SubSeq(s, p, p + Len(lit) - 1) = lit

\* str.strip(): drop the blank characters at both ends.
RECURSIVE LStrip(_)
LStrip(s) ==
    IF Len(s) > 0 /\ Ch(s, 1) \in Blank THEN LStrip(SubSeq(s, 2, Len(s))) ELSE s

RECURSIVE RStrip(_)
RStrip(s) ==
    IF Len(s) > 0 /\ Ch(s, Len(s)) \in Blank
    THEN RStrip(SubSeq(s, 1, Len(s) - 1)) ELSE s

Strip(s) == RStrip(LStrip(s))

\* ------------------------------------------- grammar expressions

\* What a rule of imap_grammar.py returns: a str is a StrMatch, _(...) a
\* RegExMatch, a tuple a Sequence, a list an OrderedChoice, a rule function
\* a reference to that rule.  Optional, ZeroOrMore and OneOrMore of several
\* expressions repeat their sequence.
StrMatch(to_match) == [k |-> "StrMatch", to_match |-> to_match]
RegExMatch(re, multiline) == [k |-> "RegExMatch", re |-> re, multiline |-> multiline]
Sequence(nodes) == [k |-> "Sequence", nodes |-> nodes]
OrderedChoice(nodes) == [k |-> "OrderedChoice", nodes |-> nodes]
ArpeggioOptional(nodes) == [k |-> "Optional", nodes |-> nodes]
ZeroOrMore(nodes) == [k |-> "ZeroOrMore", nodes |-> nodes]
OneOrMore(nodes) == [k |-> "OneOrMore", nodes |-> nodes]
Rule(name) == [k |-> "Rule", name |-> name]

\* ---------------------------------------------------- imap_grammar.py

sp == StrMatch(" ")
crlf == RegExMatch("\\r\\n", FALSE)

number == RegExMatch("\\d+", FALSE)
nz_number == RegExMatch("[1-9]\\d*", FALSE)

atom_char == RegExMatch("[^\\s\\(\\)\\{%\\*\"\\\\\\+\\]]", FALSE)
quoted_char == RegExMatch("[^\"\\\\]|\\\\.|\"\"", FALSE)

atom == OneOrMore(<<Rule("atom_char")>>)
quoted_string ==
    Sequence(<<StrMatch("\""), ZeroOrMore(<<Rule("quoted_char")>>), StrMatch("\"")>>)
literal ==
    Sequence(<<StrMatch("{"), Rule("number"), StrMatch("}"), Rule("crlf"),
               RegExMatch(".*", TRUE)>>)
string == OrderedChoice(<<Rule("quoted_string"), Rule("literal"), Rule("atom")>>)
nstring == OrderedChoice(<<Rule("string"), StrMatch("NIL")>>)

sp_list_item ==
    Sequence(<<Rule("sp"),
               OrderedChoice(<<Rule("string"), StrMatch("NIL"), Rule("paren_list")>>)>>)
paren_list ==
    Sequence(<<StrMatch("("),
               ArpeggioOptional(<<
                   OrderedChoice(<<Rule("string"), StrMatch("NIL"), Rule("paren_list")>>),
                   ZeroOrMore(<<Rule("sp_list_item")>>)>>),
               StrMatch(")")>>)

flag_keyword == RegExMatch("\\\\[A-Za-z]+", FALSE)
flag_extension == RegExMatch("\\$[A-Za-z0-9_]+", FALSE)
flag == OrderedChoice(<<Rule("flag_keyword"), Rule("flag_extension"), Rule("atom")>>)
flag_list ==
    Sequence(<<StrMatch("("),
               ArpeggioOptional(<<Rule("flag"), ZeroOrMore(<<Rule("sp"), Rule("flag")>>)>>),
               StrMatch(")")>>)

\* uid_item with any atom accepted after "UID ".
uid_item_any_atom == Sequence(<<StrMatch("UID"), Rule("sp"), Rule("atom")>>)

uid_item == Sequence(<<StrMatch("UID"), Rule("sp"), Rule("nz_number")>>)
flags_item == Sequence(<<StrMatch("FLAGS"), Rule("sp"), Rule("flag_list")>>)
\* internaldate_item that takes only a date of the fixed layout.
internaldate_item_dated ==
    Sequence(<<StrMatch("INTERNALDATE"), Rule("sp"),
               StrMatch("\"16-Aug-2025 14:06:39 +0000\"")>>)

internaldate_item ==
    Sequence(<<StrMatch("INTERNALDATE"), Rule("sp"), Rule("quoted_string")>>)
envelope_item == Sequence(<<StrMatch("ENVELOPE"), Rule("sp"), Rule("envelope")>>)
bodystructure_item ==
    Sequence(<<StrMatch("BODYSTRUCTURE"), Rule("sp"), Rule("paren_list")>>)

address ==
    Sequence(<<StrMatch("("), Rule("nstring"), Rule("sp"), Rule("nstring"), Rule("sp"),
               Rule("nstring"), Rule("sp"), Rule("nstring"), StrMatch(")")>>)
address_list == OrderedChoice(<<Rule("paren_list"), StrMatch("NIL")>>)

envelope ==
    Sequence(<<StrMatch("("),
               Rule("nstring"), Rule("sp"),          \* date
               Rule("nstring"), Rule("sp"),          \* subject
               Rule("address_list"), Rule("sp"),     \* from
               Rule("address_list"), Rule("sp"),     \* sender
               Rule("address_list"), Rule("sp"),     \* reply-to
               Rule("address_list"), Rule("sp"),     \* to
               Rule("address_list"), Rule("sp"),     \* cc
               Rule("address_list"), Rule("sp"),     \* bcc
               Rule("nstring"), Rule("sp"),          \* in-reply-to
               Rule("nstring"),                      \* message-id
               StrMatch(")")>>)

fetch_att ==
    OrderedChoice(<<Rule("uid_item"), Rule("flags_item"), Rule("internaldate_item"),
                    Rule("envelope_item"), Rule("bodystructure_item")>>)
fetch_msg_att ==
    Sequence(<<StrMatch("("),
               ArpeggioOptional(<<Rule("fetch_att"),
                                  ZeroOrMore(<<Rule("sp"), Rule("fetch_att")>>)>>),
               StrMatch(")")>>)

fetch_response ==
    Sequence(<<StrMatch("*"), Rule("sp"), Rule("number"), Rule("sp"), StrMatch("FETCH"),
               Rule("sp"), Rule("fetch_msg_att")>>)

tag == RegExMatch("[A-Z0-9]+", FALSE)
resp_cond_state == RegExMatch("OK|NO|BAD", FALSE)
text == RegExMatch(".*", FALSE)

response_tagged ==
    Sequence(<<Rule("tag"), Rule("sp"), Rule("resp_cond_state"), Rule("sp"), Rule("text")>>)
response_untagged == Sequence(<<StrMatch("*"), Rule("sp"), Rule("text")>>)
response_continuation == Sequence(<<StrMatch("+"), Rule("sp"), Rule("text")>>)

\* response with the generic untagged shape listed first.
response_untagged_first ==
    OrderedChoice(<<Rule("response_untagged"), Rule("fetch_response"),
                    Rule("response_tagged"), Rule("response_continuation")>>)

response ==
    OrderedChoice(<<Rule("fetch_response"), Rule("response_tagged"),
                    Rule("response_untagged"), Rule("response_continuation")>>)

\* The module's rules by name.
RuleTable ==
    [sp |-> sp, crlf |-> crlf, number |-> number, nz_number |-> nz_number,
     atom_char |-> atom_char, quoted_char |-> quoted_char, atom |-> atom,
     quoted_string |-> quoted_string, literal |-> literal, string |-> string,
     nstring |-> nstring, sp_list_item |-> sp_list_item, paren_list |-> paren_list,
     flag_keyword |-> flag_keyword, flag_extension |-> flag_extension, flag |-> flag,
     flag_list |-> flag_list, uid_item |-> uid_item, flags_item |-> flags_item,
     internaldate_item |-> internaldate_item, envelope_item |-> envelope_item,
     bodystructure_item |-> bodystructure_item, address |-> address,
     address_list |-> address_list, envelope |-> envelope, fetch_att |-> fetch_att,
     fetch_msg_att |-> fetch_msg_att, fetch_response |-> fetch_response, tag |-> tag,
     resp_cond_state |-> resp_cond_state, text |-> text,
     response_tagged |-> response_tagged, response_untagged |-> response_untagged,
     response_continuation |-> response_continuation, response |-> response]

GrammarRules == DOMAIN RuleTable

\* ------------------------------------------------------- the PEG engine

\* re.match(re, s, p) for the patterns of the grammar: the index after the
\* match, or -1 when the pattern does not match at p.  multiline=True
\* compiles the pattern with DOTALL, so that '.' also matches a newline.
RegexEnd(re, multiline, s, p) ==
    LET c == IF p <= Len(s) THEN Ch(s, p) ELSE ""
        Run(first, C) ==
            IF At(s, p, first) /\ RunEnd(s, p + 1, C) > p + 1
            THEN RunEnd(s, p + 1, C) ELSE -1
    IN
    CASE re = "\\r\\n" -> IF At(s, p, "\r\n") THEN p + 2 ELSE -1
      [] re = "\\d+" -> IF c \in Digit THEN RunEnd(s, p, Digit) ELSE -1
      [] re = "[1-9]\\d*" ->
            IF c \in Digit \ {"0"} THEN RunEnd(s, p + 1, Digit) ELSE -1
      [] re = "[^\\s\\(\\)\\{%\\*\"\\\\\\+\\]]" ->
            IF c # "" /\ c \notin AtomSpecial THEN p + 1 ELSE -1
      [] re = "[^\"\\\\]|\\\\.|\"\"" ->
            IF c # "" /\ c \notin {"\"", "\\"} THEN p + 1
            ELSE IF c = "\\" /\ p + 1 <= Len(s) /\ Ch(s, p + 1) # "\n" THEN p + 2
            ELSE IF At(s, p, "\"\"") THEN p + 2
            ELSE -1
      [] re = ".*" ->
            IF multiline THEN Len(s) + 1 ELSE RunEndNot(s, p, {"\n"})
      [] re = "\\\\[A-Za-z]+" -> Run("\\", Alpha)
      [] re = "\\$[A-Za-z0-9_]+" -> Run("$", Alpha \cup Digit \cup {"_"})
      [] re = "[A-Z0-9]+" ->
            IF c \in Upper \cup Digit THEN RunEnd(s, p, Upper \cup Digit) ELSE -1
      [] re = "OK|NO|BAD" ->
            IF At(s, p, "OK") \/ At(s, p, "NO") THEN p + 2
            ELSE IF At(s, p, "BAD") THEN p + 3 ELSE -1

\* A match state: ok, the 1-based index pos of the next character, the
\* terminals matched so far (the leaves of the parse tree, in order), and
\* far, the 0-based offset of the deepest failed terminal (-1: none yet).
Start == [ok |-> TRUE, pos |-> 1, toks |-> <<>>, far |-> -1]

\* A terminal matched the characters st.pos .. e-1.  An empty match moves
\* nothing and adds no node to the tree.
Took(s, st, e) ==
    IF e = st.pos THEN st
    ELSE [st EXCEPT !.pos = e, !.toks = Append(st.toks, SubSeq(s, st.pos, e - 1))]

\* A terminal failed at st.pos.
Miss(st) == [st EXCEPT !.ok = FALSE, !.far = Max(st.far, st.pos - 1)]

\* An expression failed: go back to st, remembering the deepest failure.
Back(st, failed) == [st EXCEPT !.far = failed.far]

RECURSIVE Parse(_, _, _)
RECURSIVE ParseSequence(_, _, _, _)
RECURSIVE ParseChoice(_, _, _, _)
RECURSIVE ParseRepeat(_, _, _)

\* e.parse(parser) with the parser at st (whitespace is never skipped).
Parse(e, s, st) ==
    IF ~st.ok THEN st
    ELSE CASE e.k = "StrMatch" ->
                 IF At(s, st.pos, e.to_match)
                 THEN Took(s, st, st.pos + Len(e.to_match)) ELSE Miss(st)
           [] e.k = "RegExMatch" ->
                 LET end == RegexEnd(e.re, e.multiline, s, st.pos)
                 IN  IF end < 0 THEN Miss(st) ELSE Took(s, st, end)
           [] e.k = "Rule" -> Parse(RuleTable[e.name], s, st)
           [] e.k = "Sequence" -> ParseSequence(e.nodes, 1, s, st)
           [] e.k = "OrderedChoice" -> ParseChoice(e.nodes, 1, s, st)
           [] e.k = "Optional" ->
                 LET a == ParseSequence(e.nodes, 1, s, st)
                 IN  IF a.ok THEN a ELSE Back(st, a)
           [] e.k = "ZeroOrMore" -> ParseRepeat(e.nodes, s, st)
           [] e.k = "OneOrMore" ->
                 ParseRepeat(e.nodes, s, ParseSequence(e.nodes, 1, s, st))

\* Sequence: every node in turn; the first failure fails the sequence.
ParseSequence(nodes, i, s, st) ==
    IF i > Len(nodes) \/ ~st.ok THEN st
    ELSE ParseSequence(nodes, i + 1, s, Parse(nodes[i], s, st))

\* OrderedChoice: the first node that matches, each tried from st.
ParseChoice(nodes, i, s, st) ==
    IF i > Len(nodes) THEN [st EXCEPT !.ok = FALSE]
    ELSE LET a == Parse(nodes[i], s, st)
         IN  IF a.ok THEN a ELSE ParseChoice(nodes, i + 1, s, Back(st, a))

\* Repetition: as long as the nodes match and consume input.
ParseRepeat(nodes, s, st) ==
    IF ~st.ok THEN st
    ELSE LET a == ParseSequence(nodes, 1, s, st)
         IN  IF a.ok /\ a.pos > st.pos THEN ParseRepeat(nodes, s, a) ELSE Back(st, a)

\* ------------------------------------------------- optional values

None == [set |-> FALSE]
Some(v) == [set |-> TRUE, v |-> v]

\* ------------------------------------------------- the parse tree as text

\* str(tree): the terminals of the tree joined by " | ".
RECURSIVE TreeStr(_)
TreeStr(toks) ==
    IF Len(toks) = 0 THEN ""
    ELSE IF Len(toks) = 1 THEN toks[1]
    ELSE toks[1] \o " | " \o TreeStr(Tail(toks))

\* ------------------------------------------------- regular expressions

\* Least element of a non-empty set of integers.
Least(I) == CHOOSE i \in I : \A j \in I : i <= j
Greatest(I) == CHOOSE i \in I : \A j \in I : i >= j

\* re.search(r'^\* (\d+) FETCH', t): group 1, or None.
MessageNumberMatch(t) ==
    LET e == RunEnd(t, 3, Digit)
    IN  IF At(t, 1, "* ") /\ e > 3 /\ At(t, e, " FETCH")
        THEN Some(SubSeq(t, 3, e - 1)) ELSE None

\* re.search(r'UID (\d+)', t): group 1 of the leftmost match, or None.
UidMatch(t) ==
    LET I == {i \in 1..Len(t) : At(t, i, "UID ") /\ RunEnd(t, i + 4, Digit) > i + 4}
    IN  IF I = {} THEN None
        ELSE LET i == Least(I)
             IN  Some(SubSeq(t, i + 4, RunEnd(t, i + 4, Digit) - 1))

\* The backslashes that can end group 1 of the flags pattern when the
\* pattern starts at i: after "FLAGS \" and one or more characters other
\* than ')'.
FlagsEnds(t, i) ==
    {k \in (i + 8)..(RunEndNot(t, i + 7, {")"}) - 1) : Ch(t, k) = "\\"}

\* re.search(r'FLAGS \\(([^)]+)\\)', t): group 1 of the leftmost match (the
\* "\\" of the raw pattern are literal backslashes, its parentheses are
\* groups), or None.
FlagsMatch(t) ==
    LET I == {i \in 1..Len(t) : At(t, i, "FLAGS \\") /\ FlagsEnds(t, i) # {}}
    IN  IF I = {} THEN None
        ELSE LET i == Least(I)
             IN  Some(SubSeq(t, i + 7, Greatest(FlagsEnds(t, i))))

\* re.search(r'INTERNALDATE "([^"]+)"', t): group 1 of the leftmost match.
DateMatch(t) ==
    LET Closes(i) == RunEndNot(t, i + 14, {"\""})
        I == {i \in 1..Len(t) :
                 /\ At(t, i, "INTERNALDATE \"")
                 /\ Closes(i) > i + 14
                 /\ Closes(i) <= Len(t)}
    IN  IF I = {} THEN None
        ELSE LET i == Least(I) IN Some(SubSeq(t, i + 14, Closes(i) - 1))

\* str.split(): the maximal runs of non-blank characters.
RECURSIVE Split(_)
Split(s) ==
    LET t == LStrip(s)
        e == RunEndNot(t, 1, Blank)
    IN  IF Len(t) = 0 THEN <<>>
        ELSE <<SubSeq(t, 1, e - 1)>> \o Split(SubSeq(t, e, Len(t)))

\* ------------------------------------------------- datetime.strptime

MonthNames == <<"jan", "feb", "mar", "apr", "may", "jun",
                "jul", "aug", "sep", "oct", "nov", "dec">>

LowerOf(c) ==
    IF c \in Upper
    THEN Ch(LowerSeq, CHOOSE i \in 1..Len(UpperSeq) : Ch(UpperSeq, i) = c)
    ELSE c

RECURSIVE LowerCase(_)
LowerCase(s) ==
    IF Len(s) = 0 THEN "" ELSE LowerOf(Ch(s, 1)) \o LowerCase(SubSeq(s, 2, Len(s)))

IsLeap(y) == (y % 4 = 0 /\ y % 100 # 0) \/ y % 400 = 0

DaysIn(y, m) ==
    IF m = 2 THEN (IF IsLeap(y) THEN 29 ELSE 28)
    ELSE IF m \in {4, 6, 9, 11} THEN 30 ELSE 31

AllDigits(s) == \A i \in 1..Len(s) : Ch(s, i) \in Digit

\* The width (1 or 2) of a numeric field of at most two digits that starts
\* at p, holds a value in lo..hi and is followed by a character of After
\* (or by the end of the text when After is empty); 0 when there is none.
\* The pattern tries the two-digit forms before the one-digit form.
FieldWidth(s, p, lo, hi, After) ==
    LET Follows(q) == IF After = {} THEN q = Len(s) + 1
                      ELSE q <= Len(s) /\ Ch(s, q) \in After
        Fits(w) == /\ p + w - 1 <= Len(s)
                   /\ AllDigits(SubSeq(s, p, p + w - 1))
                   /\ ToInt(SubSeq(s, p, p + w - 1)) \in lo..hi
                   /\ Follows(p + w)
    IN  IF Fits(2) THEN 2 ELSE IF Fits(1) THEN 1 ELSE 0

\* %z: [+-]HHMM or [+-]HH:MM, as seconds east of UTC; "Z" is UTC.
ZoneField(s, p) ==
    LET Sign == IF Ch(s, p) = "-" THEN -1 ELSE 1
        Plain == /\ Len(s) = p + 4
                 /\ Ch(s, p) \in {"+", "-"}
                 /\ AllDigits(SubSeq(s, p + 1, p + 4))
                 /\ Ch(s, p + 3) \in {"0", "1", "2", "3", "4", "5"}
        Colon == /\ Len(s) = p + 5
                 /\ Ch(s, p) \in {"+", "-"}
                 /\ AllDigits(SubSeq(s, p + 1, p + 2))
                 /\ Ch(s, p + 3) = ":"
                 /\ AllDigits(SubSeq(s, p + 4, p + 5))
                 /\ Ch(s, p + 4) \in {"0", "1", "2", "3", "4", "5"}
    IN  IF Plain
        THEN Some(Sign * (ToInt(SubSeq(s, p + 1, p + 2)) * 3600
                          + ToInt(SubSeq(s, p + 3, p + 4)) * 60))
        ELSE IF Colon
        THEN Some(Sign * (ToInt(SubSeq(s, p + 1, p + 2)) * 3600
                          + ToInt(SubSeq(s, p + 4, p + 5)) * 60))
        ELSE IF Len(s) = p /\ Ch(s, p) = "Z" THEN Some(0)
        ELSE None

\* datetime.strptime(s, "%d-%b-%Y %H:%M:%S %z"): the timestamp, or None
\* where strptime raises ValueError.
Strptime(s) ==
    LET dw   == FieldWidth(s, 1, 1, 31, {"-"})
        mp   == 1 + dw + 1
        mon  == IF mp + 2 <= Len(s) THEN LowerCase(SubSeq(s, mp, mp + 2)) ELSE ""
        M    == {m \in 1..12 : MonthNames[m] = mon}
        yp   == mp + 4
        hp   == RunEnd(s, yp + 4, Blank)
        hw   == FieldWidth(s, hp, 0, 23, {":"})
        np   == hp + hw + 1
        nw   == FieldWidth(s, np, 0, 59, {":"})
        cp   == np + nw + 1
        cw   == FieldWidth(s, cp, 0, 61, Blank)
        zp   == RunEnd(s, cp + cw, Blank)
        zone == IF zp <= Len(s) THEN ZoneField(s, zp) ELSE None
        year == ToInt(SubSeq(s, yp, yp + 3))
        day  == ToInt(SubSeq(s, 1, dw))
        sec  == ToInt(SubSeq(s, cp, cp + cw - 1))
    IN  IF /\ dw > 0
           /\ M # {}
           /\ At(s, mp + 3, "-")
           /\ yp + 3 <= Len(s) /\ AllDigits(SubSeq(s, yp, yp + 3))
           /\ hp > yp + 4
           /\ hw > 0 /\ nw > 0 /\ cw > 0
           /\ zone.set
           /\ year >= 1
           /\ day <= DaysIn(year, CHOOSE m \in M : TRUE)
           /\ sec <= 59
        THEN Some([year |-> year, month |-> CHOOSE m \in M : TRUE, day |-> day,
                   hour |-> ToInt(SubSeq(s, hp, hp + hw - 1)),
                   minute |-> ToInt(SubSeq(s, np, np + nw - 1)),
                   second |-> sec, utcoffset |-> zone.v])
        ELSE None

\* ------------------------------------------------- imap.py: records

\* IMAPFetchResponse(message_number=n): the other fields default to None.
IMAPFetchResponse(n) ==
    [message_number |-> n, uid |-> None, flags |-> None, internal_date |-> None,
     envelope |-> None, body_structure |-> None, body |-> None]

\* IMAPEnvelope(): every field defaults to None.
IMAPEnvelope ==
    [date |-> None, subject |-> None, from_addr |-> None, sender |-> None,
     reply_to |-> None, to |-> None, cc |-> None, bcc |-> None,
     in_reply_to |-> None, message_id |-> None]

\* ------------------------------------------------- imap.py: transformers

_transform_tree(toks) == TreeStr(toks)

_transform_fetch_response(toks) ==
    LET t          == TreeStr(toks)
        match      == MessageNumberMatch(t)
        uid_match  == UidMatch(t)
        flags_match == FlagsMatch(t)
        date_match == DateMatch(t)
        r0 == IMAPFetchResponse(IF match.set THEN ToInt(match.v) ELSE 0)
        r1 == IF uid_match.set
              THEN [r0 EXCEPT !.uid = Some(ToInt(uid_match.v))] ELSE r0
        r2 == IF flags_match.set
              THEN [r1 EXCEPT !.flags = Some(Split(flags_match.v))] ELSE r1
    IN  IF date_match.set
        THEN [r2 EXCEPT !.internal_date = Strptime(date_match.v)]
        ELSE r2

_transform_envelope(toks) == IMAPEnvelope

\* ------------------------------------------------- results and errors

\* ParseError(message, position, line, column).
ParseError(message, position, line, column) ==
    [message |-> message, position |-> position, line |-> line, column |-> column]

\* ParseResult.success_result(value) and ParseResult.error_result(error).
success_result(value) == [success |-> TRUE, value |-> Some(value), error |-> None]
error_result(error) == [success |-> FALSE, value |-> None, error |-> Some(error)]

NoResult == [success |-> FALSE, value |-> None, error |-> None]

\* The values a Success carries, by transformer.
FetchValue(r) == [type |-> "IMAPFetchResponse", fetch |-> r]
EnvelopeValue(r) == [type |-> "IMAPEnvelope", env |-> r]
TreeValue(t) == [type |-> "str", str |-> t]

\* Exceptions in flight.
NoException == [type |-> "none", msg |-> "", position |-> 0]
NoMatchMessage == "Expected a rule of the grammar at the position"
NoMatch(position) == [type |-> "NoMatch", msg |-> NoMatchMessage, position |-> position]
Raised(type, msg) == [type |-> type, msg |-> msg, position |-> 0]

\* The engine's line and column of a 0-based offset in its input.
LineOf(s, position) ==
    1 + Cardinality({i \in 1..position : i <= Len(s) /\ Ch(s, i) = "\n"})

ColOf(s, position) ==
    LET N == {i \in 1..position : i <= Len(s) /\ Ch(s, i) = "\n"}
    IN  IF N = {} THEN position + 1 ELSE position + 1 - Greatest(N)

\* ------------------------------------------------- bounds and inputs

MaxAtts == 2
MaxThreads == 2

Threads == 1..MaxThreads
MainThread == CHOOSE c \in Threads : \A d \in Threads : c <= d

\* The shared IMAPParser; a convenience function run by thread c builds
\* its own, named c.
SharedParser == 0
Owners == {SharedParser} \cup Threads

ParserNames == {"response", "fetch_response", "envelope"}

TestLine ==
    "* 1 FETCH (UID 123 FLAGS (\\Seen) INTERNALDATE \"16-Aug-2025 14:06:39 +0000\")"

GoodDate == "INTERNALDATE \"16-Aug-2025 14:06:39 +0000\""

Heads == {"* 12 FETCH ", "* FETCH "}

Atts == {"UID 123", "UID abc",
         "FLAGS ()", "FLAGS (\\Seen $Junk work)",
         GoodDate, "INTERNALDATE \"UID 5\"",
         "BODYSTRUCTURE ({5}\r\nAB\r\nC NIL)",
         "ENVELOPE (NIL NIL NIL NIL NIL NIL NIL NIL NIL NIL)"}

AttLists == UNION {[1..n -> Atts] : n \in 0..MaxAtts}

RECURSIVE JoinSp(_)
JoinSp(l) ==
    IF Len(l) = 0 THEN ""
    ELSE IF Len(l) = 1 THEN l[1]
    ELSE l[1] \o " " \o JoinSp(Tail(l))

FetchLine(head, atts) == head \o "(" \o JoinSp(atts) \o ")"

FetchLines == {FetchLine(h, l) : h \in Heads, l \in AttLists}

\* Envelopes: slot i holds SlotValue[i] when i \in S and NIL otherwise.
SlotNames == <<"date", "subject", "from_addr", "sender", "reply_to", "to",
               "cc", "bcc", "in_reply_to", "message_id">>

SlotValue == <<"\"Mon, 7 Feb 1994 21:52:25 -0800\"", "\"Hello\"",
               "((\"Al\" NIL \"al\" \"a.org\"))", "((NIL NIL \"bo\" \"b.org\"))",
               "((NIL NIL \"cy\" \"c.org\"))", "((NIL NIL \"di\" \"d.org\"))",
               "((NIL NIL \"ed\" \"e.org\"))", "((NIL NIL \"fy\" \"f.org\"))",
               "\"<r@a.org>\"", "\"<m@a.org>\"">>

Slots == 1..Len(SlotNames)

EnvelopeText(S) ==
    "(" \o JoinSp([i \in Slots |-> IF i \in S THEN SlotValue[i] ELSE "NIL"]) \o ")"

SlotSets == {{}, Slots} \cup {{i} : i \in Slots}

EnvelopeTexts == {EnvelopeText(S) : S \in SlotSets}

\* Texts with a literal: {5} CRLF and the five bytes AB CRLF C.
Literal5 == "{5}\r\nAB\r\nC"

LiteralTexts ==
    {"(" \o Literal5 \o " NIL NIL NIL NIL NIL NIL NIL NIL NIL)",
     "(NIL NIL NIL NIL NIL NIL NIL NIL NIL " \o Literal5 \o ")",
     "* 1 FETCH (BODYSTRUCTURE (" \o Literal5 \o "))",
     "* 1 FETCH (BODYSTRUCTURE (" \o Literal5 \o ") UID 123)"}

\* A line with a quoted "UID 5" before its UID attribute.
QuotedUidLine ==
    "* 1 FETCH (INTERNALDATE \"UID 5\" FLAGS (\\Seen $Junk work) UID 123)"

OtherTexts ==
    {"", "A1 OK done", "* OK ready", "* ", "+ go", "+ ", "a1 ok", "(\\Seen)",
     TestLine, TestLine \o "\r\n", "  " \o TestLine, TestLine \o " junk",
     QuotedUidLine,
     "* 1 FETCH (FLAGS (\\Seen))", "* 1 FETCH (FLAGS ())", "* 1 FETCH ()",
     "* 1 FETCH (BODYSTRUCTURE (\"TEXT\" \"PLAIN\" (\"A\" NIL)))",
     "* 0 FETCH (UID 123)", "* 1 FETCH (UID 0)", "* 007 FETCH ()",
     "* 1 fetch (UID 123)", "1 FETCH (UID 123)", "* 1 FETCH (UID 12abc)",
     "* 1 FETCH (UID abc)", "* 1 FETCH UID 123",
     "(NIL NIL NIL NIL NIL NIL NIL NIL NIL)",
     EnvelopeText({}) \o " junk"}

Inputs == FetchLines \cup EnvelopeTexts \cup LiteralTexts \cup OtherTexts

\* A text argument: a str, or an object that is no str (None).
StrArg(s) == [str |-> TRUE, val |-> s]
NotAStr == [str |-> FALSE, val |-> ""]

\* The rule argument: omitted, empty, names parse_partial knows, a rule the
\* grammar defines but parse_partial does not know, an undefined name.
RuleArgs == {None, Some(""), Some("fetch_response"), Some("envelope"),
             Some("flag_list"), Some("no_such_rule")}

Methods == {"parse", "parse_partial", "parse_fetch_response", "parse_envelope"}
Functions == {"fn_parse_fetch_response", "fn_parse_envelope"}

\* The (api, rule) pairs a caller can issue.
Requests ==
    {<<"parse", r>> : r \in RuleArgs}
    \cup {<<"parse_partial", r>> : r \in RuleArgs \ {None}}
    \cup {<<a, None>> : a \in (Methods \ {"parse", "parse_partial"}) \cup Functions}

\* ------------------------------------------------- state

VARIABLES
    call,     \* call[c]: the parse call thread c is running, and where it is
    engine    \* engine[o][n]: the input and position parser n of IMAPParser o holds

vars == <<call, engine>>

Idle ==
    [pc |-> "idle", api |-> "", text |-> StrArg(""), rule |-> None,
     owner |-> SharedParser, sel |-> "", tree |-> <<>>, exc |-> NoException,
     fault |-> FALSE, ret |-> NoResult, again |-> FALSE, prev |-> NoResult]

\* ParserPython(...): a parser that has parsed nothing yet.
ParserPython == [input |-> "", position |-> 0]

\* IMAPParser.__init__: the three parsers.
IMAPParser == [n \in ParserNames |-> ParserPython]

Init ==
    /\ call = [c \in Threads |-> Idle]
    /\ engine = [o \in Owners |-> IMAPParser]

\* The root rule each parser of IMAPParser was built from.
RootRule(n) ==
    CASE n = "response" -> Rule("response")
      [] n = "fetch_response" -> Rule("fetch_response")
      [] n = "envelope" -> Rule("envelope")

\* Python's truth value of the rule argument: None and "" are false.
Truthy(rule) == rule.set /\ rule.v # ""

\* The transformer each entry point applies to the tree.
Transformed(n, tree) ==
    CASE n = "response" -> TreeValue(_transform_tree(tree))
      [] n = "fetch_response" -> FetchValue(_transform_fetch_response(tree))
      [] n = "envelope" -> EnvelopeValue(_transform_envelope(tree))

\* ------------------------------------------------- actions

\* A caller issues a call: a method of the shared IMAPParser or a
\* module-level convenience function.
Invoke(c, I) ==
    /\ call[c].pc = "idle"
    /\ \E q \in Requests, t \in {StrArg(s) : s \in I} \cup {NotAStr} :
          call' = [call EXCEPT ![c] =
                      [Idle EXCEPT !.pc = "enter", !.api = q[1], !.rule = q[2],
                                   !.text = t]]
    /\ UNCHANGED engine

\* The body of the entry point up to the parser it uses.
\*   parse: `if rule:` hands over to parse_partial, else the top-level parser;
\*   parse_fetch_response, parse_envelope: parse_partial with the rule fixed;
\*   the module-level functions build an IMAPParser of their own first.
Enter(c) ==
    LET k == call[c] IN
    /\ k.pc = "enter"
    /\ \/ /\ k.api = "parse" /\ ~Truthy(k.rule)
          /\ call' = [call EXCEPT ![c].pc = "begin", ![c].sel = "response"]
          /\ UNCHANGED engine
       \/ /\ k.api = "parse" /\ Truthy(k.rule)
          /\ call' = [call EXCEPT ![c].pc = "select"]
          /\ UNCHANGED engine
       \/ /\ k.api = "parse_partial"
          /\ call' = [call EXCEPT ![c].pc = "select"]
          /\ UNCHANGED engine
       \/ /\ k.api = "parse_fetch_response"
          /\ call' = [call EXCEPT ![c].pc = "select", ![c].rule = Some("fetch_response")]
          /\ UNCHANGED engine
       \/ /\ k.api = "parse_envelope"
          /\ call' = [call EXCEPT ![c].pc = "select", ![c].rule = Some("envelope")]
          /\ UNCHANGED engine
       \/ /\ k.api = "fn_parse_fetch_response"
          /\ call' = [call EXCEPT ![c].pc = "select", ![c].owner = c,
                                  ![c].rule = Some("fetch_response")]
          /\ engine' = [engine EXCEPT ![c] = IMAPParser]
       \/ /\ k.api = "fn_parse_envelope"
          /\ call' = [call EXCEPT ![c].pc = "select", ![c].owner = c,
                                  ![c].rule = Some("envelope")]
          /\ engine' = [engine EXCEPT ![c] = IMAPParser]

\* parse_partial: the if / elif / else on the rule name.
Select(c) ==
    LET k == call[c] IN
    /\ k.pc = "select"
    /\ \/ /\ k.rule.v = "fetch_response"
          /\ call' = [call EXCEPT ![c].pc = "begin", ![c].sel = "fetch_response"]
       \/ /\ k.rule.v = "envelope"
          /\ call' = [call EXCEPT ![c].pc = "begin", ![c].sel = "envelope"]
       \/ /\ k.rule.v \notin {"fetch_response", "envelope"}
          /\ call' = [call EXCEPT ![c].pc = "except",
                         ![c].exc = Raised("ParseError", "Unknown rule: " \o k.rule.v)]
    /\ UNCHANGED engine

\* parser.parse(...) taking the input but keeping the position the parser
\* was left at.
BeginNoRewind(c) ==
    LET k == call[c] IN
    /\ k.pc = "begin"
    /\ \/ /\ k.text.str
          /\ engine' = [engine EXCEPT ![k.owner][k.sel] =
                           [input |-> Strip(k.text.val),
                            position |-> engine[k.owner][k.sel].position]]
          /\ call' = [call EXCEPT ![c].pc = "match"]
       \/ /\ ~k.text.str
          /\ call' = [call EXCEPT ![c].pc = "except",
                         ![c].exc = Raised("AttributeError", "object has no attribute 'strip'")]
          /\ UNCHANGED engine

\* text.strip() and the start of parser.parse(...): the parser takes the
\* input and rewinds.  strip is no attribute of an object that is no str.
Begin(c) ==
    LET k == call[c] IN
    /\ k.pc = "begin"
    /\ \/ /\ k.text.str
          /\ engine' = [engine EXCEPT ![k.owner][k.sel] =
                           [input |-> Strip(k.text.val), position |-> 0]]
          /\ call' = [call EXCEPT ![c].pc = "match"]
       \/ /\ ~k.text.str
          /\ call' = [call EXCEPT ![c].pc = "except",
                         ![c].exc = Raised("AttributeError", "object has no attribute 'strip'")]
          /\ UNCHANGED engine

\* parser.parse(...): the grammar runs over the input the parser holds, from
\* the position it holds; a tree comes back or NoMatch is raised at the
\* deepest failure.
Match(c) ==
    LET k == call[c]
        p == engine[k.owner][k.sel]
        m == Parse(RootRule(k.sel), SubSeq(p.input, p.position + 1, Len(p.input)), Start)
    IN
    /\ k.pc = "match"
    /\ \/ /\ m.ok
          /\ call' = [call EXCEPT ![c].pc = "transform", ![c].tree = m.toks]
          /\ engine' = [engine EXCEPT ![k.owner][k.sel].position = p.position + m.pos - 1]
       \/ /\ ~m.ok
          /\ call' = [call EXCEPT ![c].pc = "except",
                         ![c].exc = NoMatch(p.position + m.far)]
          /\ UNCHANGED engine

\* The transformer of the selected rule, and ParseResult.success_result.
Transform(c) ==
    LET k == call[c] IN
    /\ k.pc = "transform"
    /\ call' = [call EXCEPT ![c].pc = "done",
                            ![c].ret = success_result(Transformed(k.sel, k.tree))]
    /\ UNCHANGED engine

\* Something else goes wrong inside the try body (RecursionError on deep
\* nesting, MemoryError, ...).
Fault(c) ==
    /\ call[c].pc \in {"match", "transform"}
    /\ call' = [call EXCEPT ![c].pc = "except", ![c].fault = TRUE,
                   ![c].exc = Raised("RuntimeError", "internal fault")]
    /\ UNCHANGED engine

\* The classes that derive from Exception among those raised here.
ExceptionClasses ==
    {"NoMatch", "SemanticError", "ParseError", "AttributeError", "RuntimeError"}

\* The except clauses of parse and parse_partial (the same two in both):
\*   except (NoMatch, SemanticError): the error keeps the engine's
\*     position, line and column;
\*   except Exception: everything else becomes "Unexpected parsing error".
\* An exception no clause catches leaves the call.

\* The clauses without the final `except Exception`.
ExceptClausesNoMatchOnly(e, input) ==
    IF e.type \in {"NoMatch", "SemanticError"}
    THEN [caught |-> TRUE,
          ret |-> error_result(ParseError(e.msg, Some(e.position),
                                          Some(LineOf(input, e.position)),
                                          Some(ColOf(input, e.position))))]
    ELSE [caught |-> FALSE, ret |-> NoResult]

ExceptClauses(e, input) ==
    IF e.type \in {"NoMatch", "SemanticError"}
    THEN [caught |-> TRUE,
          ret |-> error_result(ParseError(e.msg, Some(e.position),
                                          Some(LineOf(input, e.position)),
                                          Some(ColOf(input, e.position))))]
    ELSE IF e.type \in ExceptionClasses
    THEN [caught |-> TRUE,
          ret |-> error_result(ParseError("Unexpected parsing error: " \o e.msg,
                                          None, None, None))]
    ELSE [caught |-> FALSE, ret |-> NoResult]

\* The exception reaches the except clauses; the call returns what the
\* matching clause builds.
Handle(c) ==
    LET k == call[c]
        h == ExceptClauses(k.exc, IF k.sel = "" THEN ""
                                  ELSE engine[k.owner][k.sel].input)
    IN
    /\ k.pc = "except"
    /\ call' = [call EXCEPT ![c].pc = IF h.caught THEN "done" ELSE "raised",
                            ![c].exc = IF h.caught THEN NoException ELSE k.exc,
                            ![c].ret = h.ret]
    /\ UNCHANGED engine

Step(c, I) ==
    \/ Invoke(c, I)
    \/ Enter(c)
    \/ Select(c)
    \/ Begin(c)
    \/ Match(c)
    \/ Transform(c)
    \/ Fault(c)
    \/ Handle(c)

\* One caller, every input.
Next == Step(MainThread, Inputs)

\* The caller issues the call that has just returned once more: the same
\* entry point with the same arguments (a method on the same IMAPParser, a
\* module-level function on an IMAPParser built anew), and keeps the first
\* result to compare.
Repeat(c) ==
    LET k == call[c] IN
    /\ k.pc = "done" /\ ~k.fault
    /\ call' = [call EXCEPT ![c] =
                   [Idle EXCEPT !.pc = "enter", !.api = k.api, !.rule = k.rule,
                                !.text = k.text, !.again = TRUE, !.prev = k.ret]]
    /\ UNCHANGED engine

\* One caller that parses every input, and parses it again.
NextTwice == Step(MainThread, Inputs) \/ Repeat(MainThread)

SpecTwice == Init /\ [][NextTwice]_vars

Spec == Init /\ [][Next]_vars

\* Several threads call into the shared IMAPParser at once.
ConcInputs == {TestLine, "* FETCH (UID abc)", EnvelopeText({})}

NextConc == \E c \in Threads : Step(c, ConcInputs)

SpecConc == Init /\ [][NextConc]_vars

\* ------------------------------------------------- properties

Range(f) == {f[i] : i \in DOMAIN f}

Contains(t, sub) == \E i \in 1..Len(t) : At(t, i, sub)

\* A call that has returned, and not because a fault was injected.
Returned(k) == k.pc = "done"
Clean(k) == k.pc = "done" /\ ~k.fault /\ k.text.str

FetchApis == {"parse_fetch_response", "fn_parse_fetch_response"}
EnvelopeApis == {"parse_envelope", "fn_parse_envelope"}

\* The text matches the fetch-response grammar.
MatchesFetch(t) == Parse(Rule("fetch_response"), Strip(t), Start).ok

\* The digits that follow "* " in the text.
HeadDigits(t) == SubSeq(Strip(t), 3, RunEnd(Strip(t), 3, Digit) - 1)

IsFailure(ret) == ~ret.success /\ ~ret.value.set /\ ret.error.set
IsSuccess(ret) == ret.success /\ ret.value.set /\ ~ret.error.set

\* The error built from the engine's NoMatch, with its position.
IsGrammarMismatch(ret) ==
    /\ IsFailure(ret)
    /\ ret.error.v.message = NoMatchMessage
    /\ ret.error.v.position.set

\* C1: every call returns a ParseResult that is a Success or a Failure; no
\* grammar mismatch and no internal fault leaves the call as an exception,
\* and every Failure carries a ParseError with a message.
C1_NoRaise ==
    \A c \in Threads :
        /\ call[c].pc # "raised"
        /\ Returned(call[c]) =>
              \/ IsSuccess(call[c].ret)
              \/ IsFailure(call[c].ret) /\ call[c].ret.error.v.message # ""

\* C1 witness: an internal fault during a parse came back as a Failure.
C1_Witness ==
    \E c \in Threads :
        /\ Returned(call[c]) /\ call[c].fault /\ call[c].api = "parse"
        /\ IsFailure(call[c].ret)
        /\ call[c].ret.error.v.message = "Unexpected parsing error: internal fault"

\* C2: for every input that matches the fetch-response grammar,
\* parse_fetch_response succeeds and message_number is the integer value of
\* the digits after "* ".
C2_MessageNumber ==
    \A c \in Threads :
        LET k == call[c] IN
        (Clean(k) /\ k.api \in FetchApis /\ MatchesFetch(k.text.val)) =>
            /\ IsSuccess(k.ret)
            /\ k.ret.value.v.fetch.message_number = ToInt(HeadDigits(k.text.val))

\* C3: the test line parses to message_number 1, uid 123, flags {\Seen} and
\* internal_date 2025-08-16T14:06:39+00:00.
C3_TestLine ==
    \A c \in Threads :
        LET k == call[c] IN
        (Clean(k) /\ k.api \in FetchApis /\ k.text.val = TestLine) =>
            /\ IsSuccess(k.ret)
            /\ k.ret.value.v.fetch.message_number = 1
            /\ k.ret.value.v.fetch.uid = Some(123)
            /\ k.ret.value.v.fetch.flags.set
            /\ Range(k.ret.value.v.fetch.flags.v) = {"\\Seen"}
            /\ k.ret.value.v.fetch.internal_date =
                  Some([year |-> 2025, month |-> 8, day |-> 16, hour |-> 14,
                        minute |-> 6, second |-> 39, utcoffset |-> 0])

\* The flags each FLAGS attribute of the inputs was built from.
FlagSetOf ==
    [a \in {"FLAGS ()", "FLAGS (\\Seen $Junk work)"} |->
        IF a = "FLAGS ()" THEN {} ELSE {"\\Seen", "$Junk", "work"}]

WellFormedAtts == Atts \ {"UID abc"}

\* Lines built with UID 123 and a FLAGS attribute, in either order and with
\* other attributes, each with the flags it was built from.
RoundTripCases ==
    {[line |-> FetchLine("* 12 FETCH ", l), flags |-> FlagSetOf[a]] :
        <<l, a>> \in {la \in AttLists \X DOMAIN FlagSetOf :
                        /\ "UID 123" \in Range(la[1])
                        /\ la[2] \in Range(la[1])
                        /\ Range(la[1]) \subseteq WellFormedAtts}}
    \cup {[line |-> QuotedUidLine, flags |-> {"\\Seen", "$Junk", "work"}]}

\* C4: a line built with UID u and FLAGS (F) parses to uid = u and to the
\* flags F as a set, whatever else the line carries.
C4_RoundTrip ==
    \A c \in Threads : \A rt \in RoundTripCases :
        LET k == call[c] IN
        (Clean(k) /\ k.api \in FetchApis /\ k.text.val = rt.line) =>
            /\ IsSuccess(k.ret)
            /\ k.ret.value.v.fetch.uid = Some(123)
            /\ k.ret.value.v.fetch.flags.set
            /\ Range(k.ret.value.v.fetch.flags.v) = rt.flags

\* C5: a fetch response with FLAGS () parses to a record whose flags are an
\* empty set, which is not the unset flags of a response without FLAGS.
C5_EmptyFlags ==
    \A c \in Threads :
        LET k == call[c] IN
        (Clean(k) /\ k.api \in FetchApis /\ MatchesFetch(k.text.val)
            /\ Contains(k.text.val, "FLAGS ()")) =>
            /\ IsSuccess(k.ret)
            /\ k.ret.value.v.fetch.flags = Some(<<>>)
            /\ k.ret.value.v.fetch.flags # IMAPFetchResponse(0).flags

LiteralFetchTexts == {t \in LiteralTexts : At(t, 1, "* ")}
LiteralEnvelopeTexts == LiteralTexts \ LiteralFetchTexts

\* C6: a literal {5} CRLF takes exactly the five bytes AB CRLF C, and the
\* structure after them still matches.
C6_LiteralExact ==
    \A c \in Threads :
        LET k == call[c] IN
        (Clean(k) /\ \/ k.sel = "fetch_response" /\ k.text.val \in LiteralFetchTexts
                     \/ k.sel = "envelope" /\ k.text.val \in LiteralEnvelopeTexts) =>
            /\ IsSuccess(k.ret)
            /\ "AB\r\nC" \in Range(k.tree)

\* The text has no well-formed head: "* ", digits, " FETCH (".
BadHead(t) ==
    LET u == Strip(t)
        e == RunEnd(u, 3, Digit)
    IN  ~(At(u, 1, "* ") /\ e > 3 /\ At(u, e, " FETCH ("))

\* Lines with a UID attribute that is no number.
BadUidLines ==
    {FetchLine(h, l) : <<h, l>> \in {hl \in Heads \X AttLists : "UID abc" \in Range(hl[2])}}
    \cup {"* 1 FETCH (UID abc)", "* 1 FETCH (UID 12abc)"}

\* C7: a fetch line whose UID attribute is not numeric, or whose head is
\* malformed, makes parse_fetch_response return a Failure of the grammar
\* mismatch kind, and no record.
C7_MalformedFails ==
    \A c \in Threads :
        LET k == call[c] IN
        (Clean(k) /\ k.api \in FetchApis
            /\ (k.text.val \in BadUidLines \/ BadHead(k.text.val))) =>
            IsGrammarMismatch(k.ret)

\* C7 witness: '* FETCH (UID abc)' went through parse_fetch_response.
C7_Witness ==
    \E c \in Threads :
        /\ Clean(call[c]) /\ call[c].api = "parse_fetch_response"
        /\ call[c].text.val = "* FETCH (UID abc)"
        /\ IsGrammarMismatch(call[c].ret)

\* C8: with a rule name, parse matches the named sub-grammar for every rule
\* the grammar defines; an undefined name gives a Failure with an
\* UnknownRule error that names the rule and is no generic fault.
C8_NamedRule ==
    \A c \in Threads :
        LET k == call[c] IN
        (Clean(k) /\ k.api \in {"parse", "parse_partial"} /\ Truthy(k.rule)) =>
            /\ k.rule.v \in GrammarRules =>
                  k.ret.success = Parse(Rule(k.rule.v), Strip(k.text.val), Start).ok
            /\ k.rule.v \notin GrammarRules =>
                  /\ IsFailure(k.ret)
                  /\ k.ret.error.v.message = "Unknown rule: " \o k.rule.v

\* C9: parse_envelope maps each of the ten slots to its field: a NIL slot
\* gives an unset field, any other slot a set field.
C9_EnvelopeSlots ==
    \A c \in Threads : \A S \in SlotSets :
        LET k == call[c] IN
        (Clean(k) /\ k.api \in EnvelopeApis /\ k.text.val = EnvelopeText(S)) =>
            /\ IsSuccess(k.ret)
            /\ \A i \in Slots : k.ret.value.v.env[SlotNames[i]].set <=> i \in S

\* What a call returns when it runs alone.
Alone(k) ==
    LET n == IF k.api = "parse" /\ ~Truthy(k.rule) THEN "response"
             ELSE IF k.api \in FetchApis THEN "fetch_response"
             ELSE IF k.api \in EnvelopeApis THEN "envelope"
             ELSE IF k.rule.v \in {"fetch_response", "envelope"} THEN k.rule.v
             ELSE ""
        input == Strip(k.text.val)
        m == Parse(RootRule(n), input, Start)
    IN  IF n = ""
        THEN ExceptClauses(Raised("ParseError", "Unknown rule: " \o k.rule.v), "").ret
        ELSE IF m.ok THEN success_result(Transformed(n, m.toks))
        ELSE ExceptClauses(NoMatch(m.far), input).ret

\* C10: whatever the interleaving of calls on the same parser, each call
\* returns what it returns when run alone.
C10_Isolated ==
    \A c \in Threads : Clean(call[c]) => call[c].ret = Alone(call[c])

\* C11: parsing the identical input twice in sequence, on the same parser
\* or on two freshly built parsers, gives structurally equal results.
C11_Idempotent ==
    \A c \in Threads :
        (Clean(call[c]) /\ call[c].again) => call[c].ret = call[c].prev

\* C11 witness: the test line went through parse_fetch_response of the same
\* IMAPParser a second time and came back as the same Success.
C11_Witness ==
    \E c \in Threads :
        /\ Clean(call[c]) /\ call[c].again
        /\ call[c].api = "parse_fetch_response" /\ call[c].owner = SharedParser
        /\ call[c].text.val = TestLine
        /\ IsSuccess(call[c].ret) /\ call[c].ret = call[c].prev

\* The top-level alternatives in the order fetch-response, tagged, untagged,
\* continuation.
TopLevel ==
    <<"fetch_response", "response_tagged", "response_untagged",
      "response_continuation">>

\* The alternatives that match the input on their own.
Matching(input) ==
    {i \in DOMAIN TopLevel : Parse(Rule(TopLevel[i]), input, Start).ok}

\* C12: with no rule, parse returns the tree of the first top-level
\* alternative, in the order fetch-response, tagged, untagged, continuation,
\* that matches the input, and a Failure only when none of the four matches.
C12_TopLevelOrder ==
    \A c \in Threads :
        LET k == call[c]
            input == Strip(k.text.val)
        IN
        (Clean(k) /\ k.api = "parse" /\ ~Truthy(k.rule)) =>
            /\ Matching(input) = {} <=> IsFailure(k.ret)
            /\ Matching(input) # {} =>
                  /\ IsSuccess(k.ret)
                  /\ k.ret.value.v =
                        TreeValue(TreeStr(Parse(Rule(TopLevel[Least(Matching(input))]),
                                                input, Start).toks))

\* C12 witness: the test line, which matches fetch-response and the untagged
\* shape, came back from parse as the fetch-response tree and not as the
\* untagged one.
C12_Witness ==
    \E c \in Threads :
        LET k == call[c] IN
        /\ Clean(k) /\ k.api = "parse" /\ ~Truthy(k.rule)
        /\ k.text.val = TestLine
        /\ {1, 3} \subseteq Matching(TestLine)
        /\ IsSuccess(k.ret)
        /\ k.ret.value.v =
              TreeValue(TreeStr(Parse(Rule("fetch_response"), TestLine, Start).toks))
        /\ k.ret.value.v #
              TreeValue(TreeStr(Parse(Rule("response_untagged"), TestLine, Start).toks))

\* C13: when the requested rule does not match, or input remains after the
\* match (characters after the closing parenthesis of a fetch response or of
\* an envelope), the result is a grammar-mismatch Failure with the engine's
\* offset, never a Success.
C13_FullConsumption ==
    \A c \in Threads :
        LET k == call[c]
            input == Strip(k.text.val)
            m == Parse(Rule(k.sel), input, Start)
        IN
        (Clean(k) /\ k.sel \in {"fetch_response", "envelope"}
            /\ (~m.ok \/ m.pos <= Len(input))) =>
            IsGrammarMismatch(k.ret)

\* An INTERNALDATE whose quoted string is not of the layout
\* DD-Mon-YYYY HH:MM:SS +ZZZZ.
BadDate == "INTERNALDATE \"UID 5\""

\* Attributes that are well formed on their own and parse inside a line.
PlainAtts ==
    {"UID 123", "FLAGS ()", "FLAGS (\\Seen $Junk work)", GoodDate, BadDate,
     "ENVELOPE (NIL NIL NIL NIL NIL NIL NIL NIL NIL NIL)"}

\* Well-formed lines with a bad date, each with the same line with a
\* well-formed date in its place.
BadDateCases ==
    {[bad  |-> FetchLine("* 12 FETCH ", l),
      good |-> FetchLine("* 12 FETCH ",
                         [i \in DOMAIN l |-> IF l[i] = BadDate THEN GoodDate ELSE l[i]])] :
        l \in {la \in AttLists : BadDate \in Range(la) /\ Range(la) \subseteq PlainAtts}}

\* The record parse_fetch_response builds for a line that matches.
RecordOf(line) ==
    _transform_fetch_response(Parse(Rule("fetch_response"), Strip(line), Start).toks)

\* C14: a well-formed fetch response whose INTERNALDATE string is not of the
\* date layout still parses to a Success; internal_date is unset, and
\* message_number, uid and flags are those of the same line with a
\* well-formed date.
C14_BadDateTolerated ==
    \A c \in Threads : \A bd \in BadDateCases :
        LET k == call[c] IN
        (Clean(k) /\ k.api \in FetchApis /\ k.text.val = bd.bad) =>
            /\ IsSuccess(k.ret)
            /\ k.ret.value.v.fetch.internal_date = None
            /\ k.ret.value.v.fetch.message_number = RecordOf(bd.good).message_number
            /\ k.ret.value.v.fetch.uid = RecordOf(bd.good).uid
            /\ k.ret.value.v.fetch.flags = RecordOf(bd.good).flags

\* C14 witness: a line with UID 123 and the bad date came back from
\* parse_fetch_response as a Success without internal_date.
C14_Witness ==
    \E c \in Threads :
        LET k == call[c] IN
        /\ Clean(k) /\ k.api = "parse_fetch_response"
        /\ k.text.val = FetchLine("* 12 FETCH ", <<"UID 123", BadDate>>)
        /\ Strptime("UID 5") = None
        /\ IsSuccess(k.ret)
        /\ k.ret.value.v.fetch.internal_date = None

\* Responses with empty text: the blank after "+" or "*" is part of the
\* response and not padding around it.
EmptyTextResponses == {"+ ", "* "}

\* C15: blanks around the whole input do not change the result, and blanks
\* that belong to the matched structure are kept: a continuation or untagged
\* response with empty text, "+ " or "* ", matches with its blank.
C15_Trimming ==
    \A c \in Threads :
        LET k == call[c] IN
        /\ Clean(k) =>
              k.ret = Alone([k EXCEPT !.text = StrArg(Strip(k.text.val))])
        /\ (Clean(k) /\ k.api = "parse" /\ ~Truthy(k.rule)
                /\ k.text.val \in EmptyTextResponses) =>
              /\ Parse(Rule("response"), k.text.val, Start).ok
              /\ IsSuccess(k.ret)

\* C16: every Success of parse_fetch_response holds a positive
\* message_number, never 0, and a positive uid when uid is set.
C16_Positive ==
    \A c \in Threads :
        LET k == call[c] IN
        (Clean(k) /\ k.api \in FetchApis /\ IsSuccess(k.ret)) =>
            /\ k.ret.value.v.fetch.message_number > 0
            /\ k.ret.value.v.fetch.uid.set => k.ret.value.v.fetch.uid.v > 0

====
